---- MODULE Spec2Model ----
(***************************************************************************)
(* prefect_kubernetes/credentials.py: KubernetesClusterConfig (the stored  *)
(* cluster configuration) and KubernetesCredentials (the three-tier        *)
(* resolution of a configuration and the scoped / non-scoped acquisition   *)
(* of a resource-specific client).                                         *)
(*                                                                         *)
(* Two asyncio tasks issue calls of get_client and of                      *)
(* get_resource_specific_client; every await of the code is a step, so the *)
(* calls interleave at their suspension points.  The kubernetes_asyncio    *)
(* library is modelled by what its calls do at the call sites: a loader    *)
(* given client_configuration writes that object, a loader given none      *)
(* writes the process-wide default (Configuration.set_default), and        *)
(* ApiClient.__aexit__ awaits ApiClient.close().                           *)
(***************************************************************************)
EXTENDS Integers, Sequences, FiniteSets, TLC

\* total number of calls the two tasks start in one behaviour
MaxStarts == 2

Tasks == {1, 2}

None == <<>>
Some(x) == <<x>>

-----------------------------------------------------------------------------
(* Values *)

\* the kubeconfig document of the stored configurations: its context names
\* and its current-context marker
Document == [contexts |-> {"a", "b"}, current |-> "a"]

\* KubernetesClusterConfig(config, context_name): built by from_file (the
\* context is one of the document's) or from a raw value (not validated)
KubernetesClusterConfig(config, context_name) ==
    [config |-> config, context_name |-> context_name]

\* KubernetesCredentials.cluster_config: Optional[KubernetesClusterConfig]
ClusterConfigs ==
    {None} \cup {Some(KubernetesClusterConfig(Document, c)) : c \in {"a", "b", "z"}}

WrongK8S_CLIENT_TYPES ==
    ("apps" :> "AppsV1Api") @@ ("batch" :> "AppsV1Api") @@
    ("core" :> "CoreV1Api") @@ ("custom_objects" :> "CustomObjectsApi")

K8S_CLIENT_TYPES ==
    ("apps" :> "AppsV1Api") @@ ("batch" :> "BatchV1Api") @@
    ("core" :> "CoreV1Api") @@ ("custom_objects" :> "CustomObjectsApi")

\* the client_type arguments of the calls: the four keys and a string that
\* is none of them
ClientTypeArgs == DOMAIN K8S_CLIENT_TYPES \cup {"pods"}

\* contents of a Configuration object
FreshConfiguration == [source |-> "default", context |-> ""]
DictConfiguration(cc) == [source |-> "dict", context |-> cc.context_name]
InClusterConfiguration == [source |-> "incluster", context |-> ""]
KubeConfigConfiguration == [source |-> "kube_config", context |-> ""]

\* the kubeconfig files: the one at config.kube_config.KUBE_CONFIG_DEFAULT_LOCATION
\* and another one
KUBE_CONFIG_DEFAULT_LOCATION == "~/.kube/config"
Paths == {KUBE_CONFIG_DEFAULT_LOCATION, "/etc/kube/other"}

\* the valid kubeconfig documents over three context names
ContextNames == {"a", "b", "c"}
Documents ==
    {[contexts |-> cs, current |-> cur] :
        <<cs, cur>> \in {x \in (SUBSET ContextNames) \X ContextNames : x[2] \in x[1]}}

NoApiClient == [id |-> 0, configuration |-> FreshConfiguration,
                open |-> FALSE, closes |-> 0]

\* the arguments of from_file: Optional[Path] and Optional[str]
PathArgs == {None} \cup {Some(p) : p \in Paths}
ContextNameArgs == {None} \cup {Some(c) : c \in ContextNames \cup {"", "d"}}

NoStore == [result |-> "", value |-> None, requested |-> "", listed |-> {},
            path |-> None, context_name |-> None,
            op |-> "", api_client |-> NoApiClient, api_error |-> ""]

NoClient == [api |-> "", api_client |-> 0]

VARIABLES
    inCluster,      \* environment: what load_incluster_config does here
    kubeConfigFile, \* environment: what load_kube_config does here
    defaultConfiguration, \* the process-wide default Configuration
    started,        \* number of calls started so far
    call,           \* per task: the frame of its current call
    files,          \* the kubeconfig document of every file
    store           \* what the last construction of a store gave

vars == <<inCluster, kubeConfigFile, defaultConfiguration, started, call,
          files, store>>

IdleCall ==
    [pc |-> "idle", id |-> 0, op |-> "", cluster_config |-> None,
     client_type |-> "", client_configuration |-> FreshConfiguration,
     api_client |-> NoApiClient, constructed |-> 0, client |-> NoClient,
     block |-> "", error |-> "", loaders |-> <<>>, default_before |-> FreshConfiguration]

-----------------------------------------------------------------------------
(* The loaders of kubernetes_asyncio.config, by their result at the call    *)
(* sites: "ok", or the name of the exception they raise.                    *)

\* load_kube_config_from_dict: the context must be one of the document's
load_kube_config_from_dict(cc) ==
    IF cc.context_name \in cc.config.contexts THEN "ok" ELSE "ConfigException"

\* load_incluster_config: "ok" in a pod, ConfigException where there is no
\* service account, any other exception otherwise
load_incluster_config == inCluster

\* load_kube_config: the default kubeconfig file
load_kube_config == kubeConfigFile

-----------------------------------------------------------------------------
(* The decisions of the code *)

\* `if self.cluster_config:` -- the tier a resolution starts with
InClusterFirst(cc) == "incluster"
FirstTier(cc) == IF cc # None THEN "dict" ELSE "incluster"

\* `except config.ConfigException:` -- the errors of the in-cluster loader
\* that lead to load_kube_config
CatchesAll(err) == TRUE
Catches(err) == err = "ConfigException"

\* the object the loaders of get_client write: client_configuration
\* ("local"); the loaders of get_resource_specific_client are given none
\* and write the process-wide default ("default")
AlwaysDefault(op) == "default"
LoaderTarget(op) == IF op = "get_client" THEN "local" ELSE "default"

Event(loader, target, result) ==
    [loader |-> loader, target |-> target, result |-> result]

\* an exception leaves the frame: inside `async with ApiClient`, through the
\* finally clause; elsewhere, out of the call
Swallowed(c, err) ==
    [c EXCEPT !.pc = CASE c.pc \in {"resolve", "fallback"} -> "construct"
                       [] c.pc \in {"rsc_resolve", "rsc_fallback"} -> "dispatch"
                       [] OTHER -> "done"]
RaisedThroughFinally(c, err) == [c EXCEPT !.error = err, !.pc = "finally"]
RaisedPastFinally(c, err) == [c EXCEPT !.error = err, !.pc = "done"]
Raised(c, err) ==
    [c EXCEPT !.error = err,
              !.pc = IF c.pc \in {"rsc_resolve", "rsc_fallback", "dispatch"}
                        /\ c.op = "get_client"
                     THEN "finally" ELSE "done"]

-----------------------------------------------------------------------------
Init ==
    /\ inCluster \in {"ok", "ConfigException", "OSError"}
    /\ kubeConfigFile \in {"ok", "ConfigException"}
    /\ defaultConfiguration = FreshConfiguration
    /\ started = 0
    /\ call = [t \in Tasks |-> IdleCall]
    /\ files = [p \in Paths |-> Document]
    /\ store = NoStore

\* a task calls get_client(client_type) on a KubernetesCredentials block:
\* client_configuration = configuration or Configuration()
CallGetClient(t, ccs, cts) ==
    /\ call[t].pc \in {"idle", "done"}
    /\ started < MaxStarts
    /\ \E cc \in ccs, ct \in cts :
          call' = [call EXCEPT ![t] =
                     [IdleCall EXCEPT !.pc = "resolve", !.id = started + 1,
                                      !.op = "get_client",
                                      !.cluster_config = cc, !.client_type = ct,
                                      !.default_before = defaultConfiguration]]
    /\ started' = started + 1
    /\ UNCHANGED <<inCluster, kubeConfigFile, files, store, defaultConfiguration>>

\* a task calls get_resource_specific_client(client_type, api_client) with
\* an ApiClient of its own, open or already closed
CallGetResourceSpecificClient(t) ==
    /\ call[t].pc \in {"idle", "done"}
    /\ started < MaxStarts
    /\ \E cc \in ClusterConfigs, ct \in ClientTypeArgs, o \in BOOLEAN :
          call' = [call EXCEPT ![t] =
                     [IdleCall EXCEPT !.pc = "rsc_resolve", !.id = started + 1,
                                      !.op = "get_resource_specific_client",
                                      !.cluster_config = cc, !.client_type = ct,
                                      !.api_client = [NoApiClient EXCEPT
                                                        !.id = 0 - (started + 1),
                                                        !.open = o],
                                      !.default_before = defaultConfiguration]]
    /\ started' = started + 1
    /\ UNCHANGED <<inCluster, kubeConfigFile, files, store, defaultConfiguration>>

\* a loader that succeeded has written its target: the Configuration it
\* was given, or the process-wide default (Configuration.set_default)
WriteLocal(c, target, r, content, e) ==
    [c EXCEPT !.client_configuration =
                  IF r = "ok" /\ target = "local" THEN content ELSE @,
              !.loaders = Append(@, e)]

WriteDefault(target, r, content) ==
    IF r = "ok" /\ target = "default" THEN content ELSE defaultConfiguration

\* get_client, tier 1: await config.load_kube_config_from_dict(config_dict,
\* context, client_configuration)
LoadFromDict(t) ==
    LET c == call[t]
        r == load_kube_config_from_dict(c.cluster_config[1])
        tg == LoaderTarget("get_client")
        w == WriteLocal(c, tg, r, DictConfiguration(c.cluster_config[1]),
                        Event("dict", tg, r))
    IN /\ c.pc = "resolve"
       /\ FirstTier(c.cluster_config) = "dict"
       /\ call' = [call EXCEPT ![t] =
            IF r = "ok" THEN [w EXCEPT !.pc = "construct"] ELSE Raised(w, r)]
       /\ defaultConfiguration' =
            WriteDefault(tg, r, DictConfiguration(c.cluster_config[1]))
       /\ UNCHANGED <<inCluster, kubeConfigFile, files, store, started>>

\* get_client, tier 2: config.load_incluster_config(client_configuration)
LoadInCluster(t) ==
    LET c == call[t]
        r == load_incluster_config
        tg == LoaderTarget("get_client")
        w == WriteLocal(c, tg, r, InClusterConfiguration, Event("incluster", tg, r))
    IN /\ c.pc = "resolve"
       /\ FirstTier(c.cluster_config) = "incluster"
       /\ call' = [call EXCEPT ![t] =
            IF r = "ok" THEN [w EXCEPT !.pc = "construct"]
            ELSE IF Catches(r) THEN [w EXCEPT !.pc = "fallback"]
            ELSE Raised(w, r)]
       /\ defaultConfiguration' = WriteDefault(tg, r, InClusterConfiguration)
       /\ UNCHANGED <<inCluster, kubeConfigFile, files, store, started>>

\* get_client, tier 3: await config.load_kube_config(client_configuration)
LoadKubeConfig(t) ==
    LET c == call[t]
        r == load_kube_config
        tg == LoaderTarget("get_client")
        w == WriteLocal(c, tg, r, KubeConfigConfiguration, Event("kube_config", tg, r))
    IN /\ c.pc = "fallback"
       /\ call' = [call EXCEPT ![t] =
            IF r = "ok" THEN [w EXCEPT !.pc = "construct"] ELSE Raised(w, r)]
       /\ defaultConfiguration' = WriteDefault(tg, r, KubeConfigConfiguration)
       /\ UNCHANGED <<inCluster, kubeConfigFile, files, store, started>>

\* ApiClient(configuration=client_configuration): a new connection object,
\* bound to the Configuration it is given
ApiClientOfDefault(id, configuration) ==
    [id |-> id, configuration |-> defaultConfiguration, open |-> TRUE, closes |-> 0]
SharedApiClient(id, configuration) ==
    [id |-> 1, configuration |-> configuration, open |-> TRUE, closes |-> 0]
ApiClient(id, configuration) ==
    [id |-> id, configuration |-> configuration, open |-> TRUE, closes |-> 0]

\* get_client: `async with ApiClient(configuration=client_configuration) as
\* api_client`, up to the call of get_resource_specific_client
ConstructApiClient(t) ==
    LET c == call[t]
    IN /\ c.pc = "construct"
       /\ call' = [call EXCEPT ![t] =
            [c EXCEPT !.pc = "rsc_resolve",
                      !.constructed = @ + 1,
                      !.api_client = ApiClient(c.id, c.client_configuration)]]
       /\ UNCHANGED <<inCluster, kubeConfigFile, files, store, defaultConfiguration, started>>

\* get_resource_specific_client, tier 1:
\* await self.cluster_config.configure_client(), which awaits
\* load_kube_config_from_dict(config_dict, context) with no Configuration
ConfigureClient(t) ==
    LET c == call[t]
        r == load_kube_config_from_dict(c.cluster_config[1])
        tg == LoaderTarget("get_resource_specific_client")
        w == WriteLocal(c, tg, r, DictConfiguration(c.cluster_config[1]),
                        Event("dict", tg, r))
    IN /\ c.pc = "rsc_resolve"
       /\ FirstTier(c.cluster_config) = "dict"
       /\ call' = [call EXCEPT ![t] =
            IF r = "ok" THEN [w EXCEPT !.pc = "dispatch"] ELSE Raised(w, r)]
       /\ defaultConfiguration' =
            WriteDefault(tg, r, DictConfiguration(c.cluster_config[1]))
       /\ UNCHANGED <<inCluster, kubeConfigFile, files, store, started>>

\* get_resource_specific_client, tier 2: config.load_incluster_config()
RscLoadInCluster(t) ==
    LET c == call[t]
        r == load_incluster_config
        tg == LoaderTarget("get_resource_specific_client")
        w == WriteLocal(c, tg, r, InClusterConfiguration, Event("incluster", tg, r))
    IN /\ c.pc = "rsc_resolve"
       /\ FirstTier(c.cluster_config) = "incluster"
       /\ call' = [call EXCEPT ![t] =
            IF r = "ok" THEN [w EXCEPT !.pc = "dispatch"]
            ELSE IF Catches(r) THEN [w EXCEPT !.pc = "rsc_fallback"]
            ELSE Raised(w, r)]
       /\ defaultConfiguration' = WriteDefault(tg, r, InClusterConfiguration)
       /\ UNCHANGED <<inCluster, kubeConfigFile, files, store, started>>

\* get_resource_specific_client, tier 3: await config.load_kube_config()
RscLoadKubeConfig(t) ==
    LET c == call[t]
        r == load_kube_config
        tg == LoaderTarget("get_resource_specific_client")
        w == WriteLocal(c, tg, r, KubeConfigConfiguration, Event("kube_config", tg, r))
    IN /\ c.pc = "rsc_fallback"
       /\ call' = [call EXCEPT ![t] =
            IF r = "ok" THEN [w EXCEPT !.pc = "dispatch"] ELSE Raised(w, r)]
       /\ defaultConfiguration' = WriteDefault(tg, r, KubeConfigConfiguration)
       /\ UNCHANGED <<inCluster, kubeConfigFile, files, store, started>>

\* get_resource_specific_client: return K8S_CLIENT_TYPES[client_type](api_client),
\* a KeyError becoming the ValueError "Invalid client type provided"; in
\* get_client the client returned is yielded to the caller's block
Dispatch(t) ==
    LET c == call[t]
    IN /\ c.pc = "dispatch"
       /\ call' = [call EXCEPT ![t] =
            IF c.client_type \in DOMAIN K8S_CLIENT_TYPES
            THEN [c EXCEPT !.client = [api |-> K8S_CLIENT_TYPES[c.client_type],
                                       api_client |-> c.api_client.id],
                           !.pc = IF c.op = "get_client" THEN "block" ELSE "done"]
            ELSE Raised(c, "ValueError")]
       /\ UNCHANGED <<inCluster, kubeConfigFile, files, store, defaultConfiguration, started>>

\* the caller's block under `async with credentials.get_client(...)` ends:
\* it returns, raises, or its task is cancelled while it awaits; the
\* generator is resumed at the yield, inside try/finally
BlockExit(t) ==
    LET c == call[t]
    IN /\ c.pc = "block"
       /\ \E how \in {"return", "raise", "cancel"} :
            call' = [call EXCEPT ![t] =
               [c EXCEPT !.pc = "finally", !.block = how,
                         !.error = CASE how = "return" -> ""
                                     [] how = "raise" -> "BlockError"
                                     [] how = "cancel" -> "CancelledError"]]
       /\ UNCHANGED <<inCluster, kubeConfigFile, files, store, defaultConfiguration, started>>

\* ApiClient.close()
Close(api_client) == [api_client EXCEPT !.open = FALSE, !.closes = @ + 1]

\* get_client: `finally: await api_client.close()`
FinallyClose(t) ==
    LET c == call[t]
    IN /\ c.pc = "finally"
       /\ call' = [call EXCEPT ![t] =
            [c EXCEPT !.pc = "aexit", !.api_client = Close(@)]]
       /\ UNCHANGED <<inCluster, kubeConfigFile, files, store, defaultConfiguration, started>>

\* get_client: leaving `async with ApiClient(...)`: ApiClient.__aexit__
\* awaits self.close()
NoClose(api_client) == api_client
AExit(api_client) == Close(api_client)

AsyncWithExit(t) ==
    LET c == call[t]
    IN /\ c.pc = "aexit"
       /\ call' = [call EXCEPT ![t] =
            [c EXCEPT !.pc = "done", !.api_client = AExit(@)]]
       /\ UNCHANGED <<inCluster, kubeConfigFile, files, store, defaultConfiguration, started>>

CancelSwallowed(t) ==
    LET c == call[t]
    IN /\ \/ c.pc \in {"resolve", "rsc_resolve"} /\ FirstTier(c.cluster_config) = "dict"
          \/ c.pc \in {"fallback", "rsc_fallback"}
       /\ call' = [call EXCEPT ![t] =
             [c EXCEPT !.error = "CancelledError",
                       !.pc = IF c.pc \in {"resolve", "fallback"}
                              THEN "construct" ELSE "dispatch"]]
       /\ UNCHANGED <<inCluster, kubeConfigFile, files, store, defaultConfiguration, started>>

\* the task is cancelled while the call awaits a loader: CancelledError is
\* raised at the await and the loader has written nothing
Cancel(t) ==
    LET c == call[t]
    IN /\ \/ c.pc \in {"resolve", "rsc_resolve"} /\ FirstTier(c.cluster_config) = "dict"
          \/ c.pc \in {"fallback", "rsc_fallback"}
       /\ call' = [call EXCEPT ![t] = Raised(c, "CancelledError")]
       /\ UNCHANGED <<inCluster, kubeConfigFile, files, store, defaultConfiguration, started>>

-----------------------------------------------------------------------------
(* KubernetesClusterConfig.from_file *)

\* the truth value Python gives an Optional[str]: None and "" are false
Truthy(x) == x # None /\ x[1] # ""

\* config.kube_config.list_kube_config_contexts(config_file): the contexts
\* of the file and its current context
list_kube_config_contexts(doc) == <<doc.contexts, doc.current>>

\* `if context_name: if context_name not in context_names: raise ValueError`
NeverUnknown(context_name, context_names) == FALSE
UnknownContext(context_name, context_names) ==
    Truthy(context_name) /\ context_name[1] \notin context_names

\* the context stored: the override, `else: context_name = current_context["name"]`
AlwaysCurrent(context_name, current_context) == current_context
ResolveContext(context_name, current_context) ==
    IF Truthy(context_name) THEN context_name[1] ELSE current_context

from_file(path, context_name) ==
    LET p == IF Truthy(path) THEN path[1] ELSE KUBE_CONFIG_DEFAULT_LOCATION
        listing == list_kube_config_contexts(files[p])
        context_names == listing[1]
        current_context == listing[2]
        config_dict == files[p]
    IN IF UnknownContext(context_name, context_names)
       THEN [NoStore EXCEPT !.result = "ValueError",
                            !.requested = context_name[1],
                            !.listed = context_names]
       ELSE [NoStore EXCEPT !.result = "ok",
                            !.value = Some(KubernetesClusterConfig(config_dict,
                                         ResolveContext(context_name, current_context)))]

\* a caller constructs a store from a file
FromFile ==
    /\ \E path \in PathArgs, context_name \in ContextNameArgs :
          store' = [from_file(path, context_name) EXCEPT
                       !.op = "from_file",
                       !.path = path, !.context_name = context_name]
    /\ UNCHANGED <<inCluster, kubeConfigFile, defaultConfiguration, started,
                   call, files>>

-----------------------------------------------------------------------------
(* KubernetesClusterConfig(config=..., context_name=...) and get_api_client *)

\* the raw values of `config`: a mapping, the YAML text of a mapping, or a
\* text that is no YAML
RawConfigs ==
    {[type |-> ty, document |-> Some(Document)] : ty \in {"dict", "str"}}
        \cup {[type |-> "str", document |-> None]}

\* parse_yaml_config: `if isinstance(value, str): return yaml.safe_load(value)`,
\* which raises on a text that is no YAML; any other value is returned as it is
parse_yaml_config(value) ==
    IF value.type = "str"
    THEN IF value.document = None
         THEN [error |-> "YAMLError", config |-> None]
         ELSE [error |-> "", config |-> value.document]
    ELSE [error |-> "", config |-> value.document]

\* a caller constructs a store from a raw value; the context is not checked
FromRaw ==
    /\ \E value \in RawConfigs, context_name \in {"a", "z"} :
          LET parsed == parse_yaml_config(value)
          IN store' =
                IF parsed.error # ""
                THEN [NoStore EXCEPT !.op = "raw", !.result = parsed.error]
                ELSE [NoStore EXCEPT !.op = "raw", !.result = "ok",
                         !.value = Some(KubernetesClusterConfig(parsed.config[1],
                                                                context_name))]
    /\ UNCHANGED <<inCluster, kubeConfigFile, defaultConfiguration, started,
                   call, files>>

\* get_api_client: config.kube_config.new_client_from_config_dict(config_dict,
\* context) loads the document into a Configuration of its own and returns
\* an ApiClient bound to it
IntoDefault == "default"
NewClientTarget == "local"

GetApiClient ==
    /\ store.value # None
    /\ store.api_client = NoApiClient /\ store.api_error = ""
    /\ LET cc == store.value[1]
           r == load_kube_config_from_dict(cc)
       IN /\ store' =
               IF r = "ok"
               THEN [store EXCEPT !.api_client =
                        [id |-> 1,
                         configuration |->
                            IF NewClientTarget = "local" THEN DictConfiguration(cc)
                            ELSE defaultConfiguration,
                         open |-> TRUE, closes |-> 0]]
               ELSE [store EXCEPT !.api_error = r]
          /\ defaultConfiguration' =
               WriteDefault(NewClientTarget, r, DictConfiguration(cc))
    /\ UNCHANGED <<inCluster, kubeConfigFile, started, call, files>>

\* the process starts with any default Configuration
InitStore ==
    /\ inCluster = "ConfigException"
    /\ kubeConfigFile = "ok"
    /\ defaultConfiguration \in {FreshConfiguration, InClusterConfiguration}
    /\ started = 0
    /\ call = [t \in Tasks |-> IdleCall]
    /\ files \in [Paths -> Documents]
    /\ store = NoStore

NextStore ==
    \/ FromFile
    \/ FromRaw
    \/ GetApiClient

SpecStore == InitStore /\ [][NextStore]_vars

-----------------------------------------------------------------------------
\* one step of a task
Step(t) ==
    \/ LoadFromDict(t)
    \/ LoadInCluster(t)
    \/ LoadKubeConfig(t)
    \/ ConstructApiClient(t)
    \/ ConfigureClient(t)
    \/ RscLoadInCluster(t)
    \/ RscLoadKubeConfig(t)
    \/ Dispatch(t)
    \/ BlockExit(t)
    \/ FinallyClose(t)
    \/ AsyncWithExit(t)
    \/ Cancel(t)

\* the environment of the process changes between two steps of a call: the
\* service account or the default kubeconfig file appears, disappears or
\* becomes unreadable
EnvironmentChanges ==
    /\ inCluster' \in {"ok", "ConfigException", "OSError"}
    /\ kubeConfigFile' \in {"ok", "ConfigException"}
    /\ <<inCluster', kubeConfigFile'>> # <<inCluster, kubeConfigFile>>
    /\ \E t \in Tasks : call[t].pc \notin {"idle", "done"}
    /\ UNCHANGED <<defaultConfiguration, started, call, files, store>>

\* one task, calling either operation again and again, in an environment
\* that changes
Next ==
    \/ CallGetClient(1, ClusterConfigs, ClientTypeArgs)
    \/ CallGetResourceSpecificClient(1)
    \/ Step(1)
    \/ EnvironmentChanges

Spec == Init /\ [][Next]_vars

\* two tasks, each calling get_client again and again, with or without a
\* stored configuration and for a valid or an invalid client type, in an
\* environment that stays as it is; their steps interleave at the awaits
ConcurrentClusterConfigs ==
    {None} \cup {Some(KubernetesClusterConfig(Document, c)) : c \in {"a", "b"}}

ConcurrentClientTypeArgs == {"core", "pods"}

NextConcurrent ==
    \E t \in Tasks :
        \/ CallGetClient(t, ConcurrentClusterConfigs, ConcurrentClientTypeArgs)
        \/ Step(t)

SpecConcurrent == Init /\ [][NextConcurrent]_vars

-----------------------------------------------------------------------------
(* Properties *)

Loaders(t) == call[t].loaders
IsScoped(t) == call[t].op = "get_client"
Exited(t) == call[t].pc = "done"

\* C1: every get_client call that constructed its ApiClient has closed it
\* exactly once by the time the scope has exited, however the caller's block
\* ended.
C1_ClosedExactlyOnce ==
    \A t \in Tasks :
        IsScoped(t) /\ Exited(t) /\ call[t].constructed = 1
            => call[t].api_client.closes = 1

\* C2: a call on credentials that hold a cluster_config runs no loader but
\* the one of the stored configuration, at any point of the call, in
\* get_client and in get_resource_specific_client, also when that loader fails.
C2_StoredConfigShortCircuits ==
    \A t \in Tasks :
        call[t].cluster_config # None =>
            \A i \in DOMAIN Loaders(t) : Loaders(t)[i].loader = "dict"

\* a get_client call with a stored configuration has run the loader of the
\* stored configuration twice (its own and the one of the nested call)
C2_Witness ==
    \E t \in Tasks :
        /\ IsScoped(t) /\ call[t].cluster_config # None
        /\ Len(Loaders(t)) = 2
        /\ call[t].pc = "block"

\* C3: without a cluster_config, an in-cluster attempt that fails with
\* ConfigException is followed by load_kube_config, which is given the object
\* the in-cluster attempt was given (in get_client's own resolution the
\* call's client_configuration, which it then holds the file's configuration);
\* load_kube_config never runs except right after such a failed attempt.
C3_FallsThroughToKubeConfig ==
    \A t \in Tasks :
        /\ \A i \in DOMAIN Loaders(t) :
              Loaders(t)[i].loader = "kube_config" =>
                 /\ i > 1
                 /\ call[t].cluster_config = None
                 /\ Loaders(t)[i - 1] =
                       Event("incluster", Loaders(t)[i].target, "ConfigException")
                 /\ (IsScoped(t) /\ i = 2) => Loaders(t)[i].target = "local"
        /\ \A i \in DOMAIN Loaders(t) :
              Loaders(t)[i].loader = "incluster"
              /\ Loaders(t)[i].result = "ConfigException" =>
                 \/ i < Len(Loaders(t)) /\ Loaders(t)[i + 1].loader = "kube_config"
                 \/ i = Len(Loaders(t)) /\ call[t].pc \in {"fallback", "rsc_fallback"}
                 \/ i = Len(Loaders(t)) /\ call[t].error = "CancelledError"
        /\ (IsScoped(t) /\ call[t].pc = "construct" /\ Len(Loaders(t)) = 2)
              => call[t].client_configuration = KubeConfigConfiguration

\* get_client fell through to the kubeconfig file and is about to construct
\* its ApiClient
C3_Witness ==
    \E t \in Tasks :
        /\ IsScoped(t) /\ call[t].pc = "construct"
        /\ Len(Loaders(t)) = 2
        /\ Loaders(t)[1] = Event("incluster", "local", "ConfigException")
        /\ Loaders(t)[2] = Event("kube_config", "local", "ok")

\* C4: when the in-cluster loader fails with an error that is no
\* ConfigException, no loader runs after it, the error is the error of the
\* call, and no client is yielded or returned, in both operations.
C4_OtherErrorPropagates ==
    \A t \in Tasks :
        \A i \in DOMAIN Loaders(t) :
            Loaders(t)[i].loader = "incluster"
            /\ Loaders(t)[i].result \notin {"ok", "ConfigException"} =>
               /\ i = Len(Loaders(t))
               /\ call[t].error = Loaders(t)[i].result
               /\ call[t].client = NoClient
               /\ call[t].block = ""
               /\ call[t].pc \in {"finally", "aexit", "done"}

\* get_resource_specific_client has failed with the error of the in-cluster
\* loader
C4_Witness ==
    /\ call[1].pc = "done" /\ call[1].error = "OSError"
    /\ call[1].op = "get_resource_specific_client"
    /\ Len(Loaders(1)) = 1

\* C5: a get_client call for a client_type that is no key of K8S_CLIENT_TYPES
\* constructs no ApiClient, and fails with the ValueError of the invalid type.
C5_InvalidTypeConstructsNothing ==
    \A t \in Tasks :
        IsScoped(t) /\ call[t].client_type \notin DOMAIN K8S_CLIENT_TYPES =>
            /\ call[t].constructed = 0
            /\ Exited(t) => call[t].error = "ValueError"

\* C6: during and after a get_client call on credentials that hold a
\* cluster_config, the process-wide default Configuration is what it was
\* when the call began.
C6_DefaultConfigurationUntouched ==
    \A t \in Tasks :
        IsScoped(t) /\ call[t].cluster_config # None =>
            defaultConfiguration = call[t].default_before

\* the process-wide default Configuration that one get_client call, run
\* alone and to its end from the default d, leaves
LeftDefault(d, cc) ==
    IF FirstTier(cc) = "dict"
    THEN IF load_kube_config_from_dict(cc[1]) = "ok"
         THEN DictConfiguration(cc[1]) ELSE d
    ELSE IF load_incluster_config = "ok" THEN InClusterConfiguration
         ELSE IF Catches(load_incluster_config) /\ load_kube_config = "ok"
         THEN KubeConfigConfiguration ELSE d

\* the Configuration the ApiClient of one get_client call, run alone, is bound to
BoundConfiguration(cc) ==
    IF FirstTier(cc) = "dict" THEN DictConfiguration(cc[1])
    ELSE IF load_incluster_config = "ok" THEN InClusterConfiguration
    ELSE KubeConfigConfiguration

\* the error one get_client call, run alone, ends with ("" for none), given
\* how the caller's block ends
SoloError(cc, ct, how) ==
    LET after == IF ct \notin DOMAIN K8S_CLIENT_TYPES THEN "ValueError"
                 ELSE CASE how = "raise" -> "BlockError"
                        [] how = "cancel" -> "CancelledError"
                        [] OTHER -> ""
    IN IF FirstTier(cc) = "dict"
       THEN IF load_kube_config_from_dict(cc[1]) = "ok" THEN after
            ELSE load_kube_config_from_dict(cc[1])
       ELSE IF load_incluster_config = "ok" THEN after
            ELSE IF ~Catches(load_incluster_config) THEN load_incluster_config
            ELSE IF load_kube_config = "ok" THEN after ELSE load_kube_config

\* the task of the call was cancelled while the call awaited a loader
CancelledInLoader(t) == call[t].error = "CancelledError" /\ call[t].block = ""

\* C7: when two get_client calls, interleaved at their awaits, have both
\* finished (neither cancelled in a loader), each call has ended as it ends
\* when run alone, each ApiClient is bound to the configuration it is bound
\* to when the call runs alone, and the process-wide state is the one the two
\* calls leave when they run one after the other, in either order.
C7_ConcurrentCallsIndependent ==
    (/\ started = 2
     /\ \A t \in Tasks : IsScoped(t) /\ Exited(t) /\ ~CancelledInLoader(t)) =>
        /\ \A t \in Tasks :
              /\ call[t].error =
                    SoloError(call[t].cluster_config, call[t].client_type, call[t].block)
              /\ call[t].constructed = 1 =>
                    call[t].api_client.configuration =
                        BoundConfiguration(call[t].cluster_config)
        /\ defaultConfiguration =
              LeftDefault(LeftDefault(FreshConfiguration, call[1].cluster_config),
                          call[2].cluster_config)
        /\ defaultConfiguration =
              LeftDefault(LeftDefault(FreshConfiguration, call[2].cluster_config),
                          call[1].cluster_config)

\* C7, the part that holds: the outcome and the binding of each call are
\* those of the call run alone, and the process-wide state is the one the
\* two calls leave when run one after the other in one of the two orders.
C7_Serializable ==
    (/\ started = 2
     /\ \A t \in Tasks : IsScoped(t) /\ Exited(t) /\ ~CancelledInLoader(t)) =>
        /\ \A t \in Tasks :
              /\ call[t].error =
                    SoloError(call[t].cluster_config, call[t].client_type, call[t].block)
              /\ call[t].constructed = 1 =>
                    call[t].api_client.configuration =
                        BoundConfiguration(call[t].cluster_config)
        /\ \/ defaultConfiguration =
                 LeftDefault(LeftDefault(FreshConfiguration, call[1].cluster_config),
                             call[2].cluster_config)
           \/ defaultConfiguration =
                 LeftDefault(LeftDefault(FreshConfiguration, call[2].cluster_config),
                             call[1].cluster_config)

\* the typed client the claim names for a client_type
ExpectedApi(client_type) ==
    CASE client_type = "apps" -> "AppsV1Api"
      [] client_type = "batch" -> "BatchV1Api"
      [] client_type = "core" -> "CoreV1Api"
      [] client_type = "custom_objects" -> "CustomObjectsApi"
      [] OTHER -> "none"

\* C8: a get_client call that yields, yields the typed client of its
\* client_type, wrapping the ApiClient this call constructed from its
\* client_configuration; a call for one of the four types never fails with
\* the ValueError of the invalid type.
C8_YieldsMatchingClient ==
    \A t \in Tasks :
        /\ (IsScoped(t) /\ call[t].pc = "block") =>
              /\ call[t].client.api = ExpectedApi(call[t].client_type)
              /\ call[t].client.api_client = call[t].api_client.id
              /\ call[t].api_client.id = call[t].id
              /\ call[t].constructed = 1
              /\ call[t].api_client.configuration = call[t].client_configuration
              /\ call[t].client_configuration # FreshConfiguration
        /\ (IsScoped(t) /\ ExpectedApi(call[t].client_type) # "none") =>
              call[t].error # "ValueError"

\* get_client("batch") has yielded its client
C8_Witness ==
    \E t \in Tasks :
        /\ IsScoped(t) /\ call[t].pc = "block"
        /\ call[t].client_type = "batch"
        /\ call[t].client.api = "BatchV1Api"

\* the document of the file from_file was given (the default one without a path)
GivenDocument ==
    files[IF store.path = None \/ store.path = Some("")
          THEN "~/.kube/config" ELSE store.path[1]]

\* C9: from_file with an override that names a context of the document gives
\* a store with that context; without an override, a store with the
\* document's current context; in both cases the store's config is the
\* whole document.
C9_FromFileResolvesContext ==
    store.op = "from_file" =>
        /\ (store.context_name # None
            /\ store.context_name[1] \in GivenDocument.contexts) =>
              /\ store.result = "ok"
              /\ store.value = Some([config |-> GivenDocument,
                                     context_name |-> store.context_name[1]])
        /\ store.context_name = None =>
              /\ store.result = "ok"
              /\ store.value = Some([config |-> GivenDocument,
                                     context_name |-> GivenDocument.current])

\* from_file was given, for a file that is not the default one, an override
\* that is a context of the document but not its current one
C9_Witness ==
    /\ store.result = "ok"
    /\ store.path = Some("/etc/kube/other")
    /\ store.context_name # None
    /\ store.context_name[1] \in GivenDocument.contexts
    /\ store.context_name[1] # GivenDocument.current
    /\ files["~/.kube/config"] # GivenDocument

\* C10 as stated: from_file with any override that is no context of the
\* document fails with the ValueError that names the override and lists the
\* contexts of the document, and gives no store.
C10_UnknownOverrideFails ==
    (store.op = "from_file" /\ store.context_name # None
     /\ store.context_name[1] \notin GivenDocument.contexts) =>
        /\ store.result = "ValueError"
        /\ store.requested = store.context_name[1]
        /\ store.listed = GivenDocument.contexts
        /\ store.value = None

\* C10, amended: from_file with a non-empty override that is no context of
\* the document fails with the ValueError that names the override and lists
\* exactly the contexts of the document, and gives no store.
C10_UnknownNonEmptyOverrideFails ==
    (store.op = "from_file" /\ store.context_name # None
     /\ store.context_name[1] # ""
     /\ store.context_name[1] \notin GivenDocument.contexts) =>
        /\ store.result = "ValueError"
        /\ store.requested = store.context_name[1]
        /\ store.listed = GivenDocument.contexts
        /\ store.value = None

\* from_file has refused the override "c" for a document with the contexts
\* "a" and "b"
C10_Witness ==
    /\ store.result = "ValueError"
    /\ store.context_name = Some("c")
    /\ store.listed = {"a", "b"}

\* C11: no construction of a store, from a file or from a raw value, and no
\* get_api_client changes the process-wide default Configuration, whether it
\* succeeds or fails.
C11_StoreLeavesDefaultAlone ==
    [][defaultConfiguration' = defaultConfiguration]_vars

\* get_api_client has returned an ApiClient for a store constructed from a
\* raw value, in a process whose default Configuration is not the one of
\* the store
C11_Witness ==
    /\ store.op = "raw"
    /\ store.api_client.open
    /\ store.api_client.configuration = DictConfiguration(store.value[1])
    /\ defaultConfiguration = InClusterConfiguration

\* C12 as stated: in one call, no loader runs after a loader has succeeded,
\* and no loader runs twice.
C12_ChainEvaluatedOnce ==
    \A t \in Tasks :
        \A i, j \in DOMAIN Loaders(t) :
            i < j => /\ Loaders(t)[i].result # "ok"
                     /\ Loaders(t)[i].loader # Loaders(t)[j].loader

\* the Configuration a loader gives
Loaded(loader, cc) ==
    CASE loader = "dict" -> DictConfiguration(cc[1])
      [] loader = "incluster" -> InClusterConfiguration
      [] OTHER -> KubeConfigConfiguration

\* C13: in a get_client call, the ApiClient exists only after a loader has
\* succeeded on client_configuration, and is bound to what that loader gave;
\* the caller's block has a client only on the open, never closed ApiClient
\* of the call; the ApiClient is closed only after the block, if there was
\* one, has been left.
C13_LoadConstructYieldClose ==
    \A t \in Tasks :
        IsScoped(t) =>
            /\ call[t].constructed = 1 =>
                  \E i \in DOMAIN Loaders(t) :
                      /\ Loaders(t)[i].target = "local"
                      /\ Loaders(t)[i].result = "ok"
                      /\ \A j \in DOMAIN Loaders(t) :
                            j > i => Loaders(t)[j].target # "local"
                      /\ call[t].api_client.configuration =
                            Loaded(Loaders(t)[i].loader, call[t].cluster_config)
            /\ call[t].pc \in {"resolve", "fallback", "construct"} =>
                  call[t].constructed = 0 /\ call[t].api_client = NoApiClient
            /\ call[t].pc = "block" =>
                  /\ call[t].constructed = 1
                  /\ call[t].api_client.open /\ call[t].api_client.closes = 0
                  /\ call[t].client.api_client = call[t].api_client.id
            /\ call[t].api_client.closes > 0 =>
                  /\ call[t].pc \in {"aexit", "done"}
                  /\ call[t].client # NoClient => call[t].block # ""
            /\ call[t].client # NoClient /\ call[t].block = "" => call[t].pc = "block"

\* a get_client call has gone through all four events: its block was left
\* and its ApiClient, bound to the kubeconfig file's configuration, is closed
C13_Witness ==
    \E t \in Tasks :
        /\ IsScoped(t) /\ Exited(t)
        /\ call[t].block = "return"
        /\ call[t].api_client.configuration = KubeConfigConfiguration
        /\ ~call[t].api_client.open

\* C14: when the loader of the stored configuration or load_kube_config
\* fails, no loader runs after it, its error is the error of the call, and
\* the caller's block is never entered, in both operations.
C14_TierOneAndThreeErrorsPropagate ==
    \A t \in Tasks :
        \A i \in DOMAIN Loaders(t) :
            Loaders(t)[i].loader \in {"dict", "kube_config"}
            /\ Loaders(t)[i].result # "ok" =>
               /\ i = Len(Loaders(t))
               /\ call[t].error = Loaders(t)[i].result
               /\ call[t].client = NoClient
               /\ call[t].block = ""
               /\ call[t].pc \in {"finally", "aexit", "done"}

\* get_client has ended with the error of load_kube_config, raised in its
\* own resolution
C14_Witness ==
    \E t \in Tasks :
        /\ IsScoped(t) /\ Exited(t)
        /\ Len(Loaders(t)) = 2
        /\ Loaders(t)[2] = Event("kube_config", "local", "ConfigException")
        /\ call[t].error = "ConfigException"

\* C15: a get_client call that ends with an error (of a loader or of a
\* cancellation) while it loads its client_configuration ends at once,
\* without an ApiClient and without having entered the caller's block.
C15_NothingHeldBeforeConstruction ==
    /\ [](\A t \in Tasks :
            IsScoped(t) /\ Exited(t) /\ call[t].constructed = 0 =>
                /\ call[t].error # ""
                /\ call[t].api_client = NoApiClient
                /\ call[t].client = NoClient /\ call[t].block = "")
    /\ [][\A t \in Tasks :
            (IsScoped(t) /\ call[t].pc \in {"resolve", "fallback"}
             /\ call'[t].error # "") =>
                /\ call'[t].pc = "done"
                /\ call'[t].constructed = 0
                /\ call'[t].api_client = NoApiClient
                /\ call'[t].client = NoClient /\ call'[t].block = ""]_vars

\* a get_client call was cancelled while it awaited load_kube_config for its
\* client_configuration
C15_Witness ==
    \E t \in Tasks :
        /\ IsScoped(t) /\ Exited(t)
        /\ call[t].error = "CancelledError"
        /\ Len(Loaders(t)) = 1
        /\ call[t].constructed = 0

\* C16 as stated: a get_resource_specific_client call for a client_type that
\* is no key of K8S_CLIENT_TYPES runs no loader, leaves the process-wide
\* default Configuration and the ApiClient it was given as they were, and
\* fails with the ValueError of the invalid type.
C16_InvalidTypeBeforeTiers ==
    \A t \in Tasks :
        (~IsScoped(t) /\ call[t].op # ""
         /\ call[t].client_type \notin DOMAIN K8S_CLIENT_TYPES) =>
            /\ Loaders(t) = <<>>
            /\ defaultConfiguration = call[t].default_before
            /\ call[t].api_client.closes = 0
            /\ Exited(t) => call[t].error = "ValueError"

\* C17: a get_resource_specific_client call constructs no ApiClient and
\* closes none; no step of it changes the ApiClient it was given; the client
\* it returns wraps that ApiClient.
C17_NonScopedUsesGivenApiClient ==
    /\ [](\A t \in Tasks :
            call[t].op = "get_resource_specific_client" =>
                /\ call[t].constructed = 0
                /\ call[t].api_client.closes = 0
                /\ call[t].api_client.id = 0 - call[t].id
                /\ (Exited(t) /\ call[t].error = "") =>
                      /\ call[t].client.api_client = call[t].api_client.id
                      /\ call[t].client.api = ExpectedApi(call[t].client_type))
    /\ [][\A t \in Tasks :
            (call[t].op = "get_resource_specific_client"
             /\ call'[t].id = call[t].id) =>
                call'[t].api_client = call[t].api_client]_vars

\* get_resource_specific_client has returned a client on an ApiClient that
\* was given closed
C17_Witness ==
    \E t \in Tasks :
        /\ call[t].op = "get_resource_specific_client" /\ Exited(t)
        /\ call[t].client # NoClient
        /\ ~call[t].api_client.open

\* C18: among concurrent get_client calls, no two calls have constructed the
\* same ApiClient, no two clients wrap the same ApiClient, every client
\* wraps the ApiClient of its own call, and the ApiClient of a call that has
\* exited is closed.
C18_ApiClientOwnedByItsCall ==
    /\ \A t1, t2 \in Tasks :
          t1 # t2 =>
             /\ (call[t1].constructed = 1 /\ call[t2].constructed = 1) =>
                   call[t1].api_client.id # call[t2].api_client.id
             /\ (call[t1].client # NoClient /\ call[t2].client # NoClient) =>
                   call[t1].client.api_client # call[t2].client.api_client
    /\ \A t \in Tasks :
          /\ call[t].client # NoClient =>
                call[t].client.api_client = call[t].api_client.id
          /\ (Exited(t) /\ call[t].constructed = 1) => ~call[t].api_client.open

\* the blocks of two get_client calls run at the same time, each on its own
\* open ApiClient
C18_Witness ==
    /\ \A t \in Tasks : IsScoped(t) /\ call[t].pc = "block" /\ call[t].api_client.open
    /\ call[1].api_client.id # call[2].api_client.id

\* C19: the ApiClient a get_client call constructed is closed when the call
\* has finished, also when the call failed between the construction and the
\* caller's block.
C19_NoApiClientLeak ==
    \A t \in Tasks :
        (IsScoped(t) /\ Exited(t) /\ call[t].constructed = 1) =>
            ~call[t].api_client.open /\ call[t].api_client.closes >= 1

\* a get_client call has ended with the error of a loader of the nested
\* get_resource_specific_client, its ApiClient closed
C19_Witness ==
    \E t \in Tasks :
        /\ IsScoped(t) /\ Exited(t) /\ call[t].constructed = 1
        /\ call[t].client = NoClient
        /\ Len(Loaders(t)) >= 2
        /\ Loaders(t)[Len(Loaders(t))].target = "default"
        /\ Loaders(t)[Len(Loaders(t))].result # "ok"
        /\ ~call[t].api_client.open

====
